---- MODULE Spec2Model ----
(***************************************************************************)
(* Model of gui.py: the ConverterGUI supervisor (start / stop /            *)
(* check_pipe / settings persistence / on_close) and the download_worker   *)
(* process it spawns.                                                      *)
(*                                                                         *)
(* Text is modelled as a sequence of atoms.  An atom is a blank " ", a     *)
(* slash "/", or a maximal run of other characters, so that str.strip,     *)
(* str.rstrip('/'), str.split('/') and str.startswith act on the sequence  *)
(* the way they act on the characters.                                     *)
(***************************************************************************)
EXTENDS Integers, Sequences, FiniteSets, TLC

(***************************************************************************)
(* Bounds of the model                                                     *)
(***************************************************************************)
\* number of worker processes one session may spawn in Spec
MaxJobs == 2
\* number of worker processes one session may spawn in RestartSpec, where
\* two more jobs are started that never get to run
Slots == MaxJobs + 2
\* steps the workers may take between the stop_evt.set() and the
\* proc.terminate() of one stop()
MaxKillLag == 3
\* messages the pipe holds before a sender waits for check_pipe to drain it
MaxPipe == 3

(***************************************************************************)
(* Text helpers                                                            *)
(***************************************************************************)
SP == " "
SL == "/"

RECURSIVE LStrip(_)
LStrip(s) == IF s # <<>> /\ Head(s) = SP THEN LStrip(Tail(s)) ELSE s

RECURSIVE RStrip(_)
RStrip(s) ==
    IF s # <<>> /\ s[Len(s)] = SP THEN RStrip(SubSeq(s, 1, Len(s) - 1)) ELSE s

\* str.strip()
Strip(s) == RStrip(LStrip(s))

\* str.rstrip('/')
RECURSIVE RStripSlash(_)
RStripSlash(s) ==
    IF s # <<>> /\ s[Len(s)] = SL THEN RStripSlash(SubSeq(s, 1, Len(s) - 1))
    ELSE s

\* str.split('/')[-1]: what follows the last '/', all of s if it has none
RECURSIVE LastSegment(_)
LastSegment(s) ==
    IF s = <<>> \/ s[Len(s)] = SL THEN <<>>
    ELSE Append(LastSegment(SubSeq(s, 1, Len(s) - 1)), s[Len(s)])

\* Repo, were the trailing slashes left in place
Repo_NoRStrip(url) == LastSegment(url)

\* repo = url.rstrip('/').split('/')[-1]
Repo(url) == LastSegment(RStripSlash(url))

\* str.startswith("---")
StartsWithDashes(s) == s # <<>> /\ Head(s) = "---"

(***************************************************************************)
(* _define_models: the catalog, in the dict's insertion order              *)
(***************************************************************************)
Entry(name, url, type, params) ==
    [name |-> name, url |-> url, type |-> type, params |-> params]

model_groups ==
    << [group |-> <<"Vision-Language">>,
        models |-> <<
          Entry(<<"NuMarkdown-8B-Thinking">>,
                <<"numind", SL, "NuMarkdown-8B-Thinking">>, "vision", "8B"),
          Entry(<<"Qwen2.5-VL-7B-Instruct">>,
                <<"Qwen", SL, "Qwen2.5-VL-7B-Instruct">>, "vision", "7B"),
          Entry(<<"MiniCPM-V-4_5">>,
                <<"openbmb", SL, "MiniCPM-V-4_5">>, "vision", "8B"),
          Entry(<<"GLM-4V-9B">>,
                <<"THUDM", SL, "glm-4v-9b">>, "vision", "9B"),
          Entry(<<"InternVL2-8B">>,
                <<"OpenGVLab", SL, "InternVL2-8B">>, "vision", "8B") >>],
       [group |-> <<"Translation">>,
        models |-> <<
          Entry(<<"Hunyuan-MT-7B">>,
                <<"tencent", SL, "Hunyuan-MT-7B">>, "text", "7B"),
          Entry(<<"Hunyuan-MT-Chimera-7B">>,
                <<"tencent", SL, "Hunyuan-MT-Chimera-7B">>, "text", "7B"),
          Entry(<<"NLLB-200-Distilled-600M">>,
                <<"facebook", SL, "nllb-200-distilled-600M">>, "text", "600M"),
          Entry(<<"M2M100-12B">>,
                <<"facebook", SL, "m2m100_12B">>, "text", "12B") >>],
       [group |-> <<"LLM">>,
        models |-> <<
          Entry(<<"Qwen2.5-7B-Instruct">>,
                <<"Qwen", SL, "Qwen2.5-7B-Instruct">>, "text", "7B"),
          Entry(<<"Qwen2.5-14B-Instruct">>,
                <<"Qwen", SL, "Qwen2.5-14B-Instruct">>, "text", "14B"),
          Entry(<<"Qwen2.5-32B-Instruct">>,
                <<"Qwen", SL, "Qwen2.5-32B-Instruct">>, "text", "32B"),
          Entry(<<"Mistral-7B-Instruct-v0.3">>,
                <<"mistralai", SL, "Mistral-7B-Instruct-v0.3">>, "text", "7B"),
          Entry(<<"Llama-3.1-8B-Instruct">>,
                <<"meta-llama", SL, "Llama-3.1-8B-Instruct">>, "text", "8B") >>],
       [group |-> <<"Custom">>,
        models |-> <<
          Entry(<<"Svoya", SP, "model">>, <<>>, "vision", "?") >>] >>

\* the combobox line of a group header: f"--- {group_name} ---"
HeaderValue(g) == <<"---", SP>> \o g.group \o <<SP, "---">>

\* the combobox line of a model: f"  {model_name}"
ModelValue(e) == <<SP, SP>> \o e.name

RECURSIVE ModelValues(_)
ModelValues(ms) ==
    IF ms = <<>> THEN <<>> ELSE <<ModelValue(Head(ms))>> \o ModelValues(Tail(ms))

RECURSIVE GroupValues(_)
GroupValues(gs) ==
    IF gs = <<>> THEN <<>>
    ELSE <<HeaderValue(Head(gs))>> \o ModelValues(Head(gs).models)
         \o GroupValues(Tail(gs))

\* populate_model_cb: self.model_cb['values']
values == GroupValues(model_groups)

InValues(v) == \E i \in 1..Len(values) : values[i] = v

\* the catalog entries as a set
AllEntries ==
    UNION { { model_groups[g].models[i] : i \in 1..Len(model_groups[g].models) } :
            g \in 1..Len(model_groups) }

\* get_model_info for a combobox text: <<info>>, or <<>> for None
ModelInfoOf(sel) ==
    LET selected == Strip(sel) IN
    IF selected = <<>> \/ StartsWithDashes(selected) THEN <<>>
    ELSE LET model_name == Strip(selected)
             hits == { e \in AllEntries : e.name = model_name }
         IN IF hits = {} THEN <<>> ELSE <<CHOOSE e \in hits : TRUE>>

(***************************************************************************)
(* State                                                                   *)
(***************************************************************************)
VARIABLES
    \* the tk variables and widgets of the supervisor
    model_var, url_var, url_entry, out_var, ctx_var, device_var, safe_ser_var,
    start_btn, stop_btn, progress, status,
    \* the showerror / showinfo box the supervisor's last handler showed
    \* ("none" if it showed none)
    dialog,
    \* where the supervisor's thread is: "idle" in the event loop, or
    \* "stopping" inside stop() between stop_evt.set() and proc.terminate();
    \* lag counts the worker steps taken meanwhile
    sup, lag,
    \* root window: "open" or "destroyed"
    window,
    \* multiprocessing: self.proc (0 is None), self.stop_evt, the pipe
    proc, stop_evt, pipe,
    \* the worker processes spawned so far, and how many there are
    workers, njobs,
    \* gui_settings.json
    settings_file,
    \* what load_settings printed to stdout in this session ("none" if nothing)
    printed

cfgvars == <<model_var, url_var, url_entry, out_var, ctx_var, device_var,
             safe_ser_var>>
guivars == <<start_btn, stop_btn, progress, status>>
mpvars == <<proc, stop_evt, pipe, workers, njobs>>
vars == <<cfgvars, guivars, dialog, sup, lag, window, mpvars, settings_file, printed>>

(***************************************************************************)
(* Worker records                                                          *)
(***************************************************************************)
\* the job configuration dict built by start()
NoConfig ==
    [TARGET_MODEL_URL |-> <<>>, OUTPUT_PATH |-> "", MODEL_TYPE |-> "",
     SAFE_SERIALIZATION |-> FALSE, MAX_SEQ_LENGTH |-> 0, FORCE_CPU |-> FALSE,
     DEVICE |-> ""]

\* A process slot that start() has not used yet.  pc, ph: the statement the
\* worker is at and, inside a send_* helper, whether the flag has still to
\* be checked ("check") or the message to be sent ("send"); exc: the
\* exception in flight through the finally clause; err: the text of the
\* Exception caught; model, tokenizer, image_processor: what is loaded;
\* saved: what has been saved; sent: the messages sent so far;
\* interrupted: a send_* helper has found the flag set; loads: the model
\* loader invocations made; dirs: the directories mkdir has been called
\* for; final_path: the local of that name (<<>> before it is assigned).
Unborn ==
    [state |-> "unborn", cfg |-> NoConfig, pc |-> 1, ph |-> "check",
     exc |-> "none", err |-> "", model |-> "none", tokenizer |-> FALSE,
     image_processor |-> FALSE, saved |-> {}, sent |-> <<>>,
     interrupted |-> FALSE, loads |-> <<>>, dirs |-> {}, final_path |-> <<>>,
     cancelled |-> FALSE, sent_at_cancel |-> 0, saved_at_cancel |-> {},
     ndone |-> 0, done_last |-> FALSE, succeeded |-> FALSE]

\* Process.is_alive()
IsAlive(w) == w.state = "alive"

\* the number of 'done' messages among msgs
RECURSIVE CountDone(_)
CountDone(msgs) ==
    IF msgs = <<>> THEN 0
    ELSE (IF Head(msgs).type = "done" THEN 1 ELSE 0) + CountDone(Tail(msgs))

\* A process that has ended ("exited": it returned; "killed": SIGTERM) has
\* no state left.  Its record keeps what the run amounted to: whether a stop
\* was confirmed while it ran, how many 'done' messages it sent, whether
\* 'done' was the last message it sent, whether it reported progress 100.
Ended(w, how) ==
    [Unborn EXCEPT
        !.state = how,
        !.cancelled = w.cancelled,
        !.ndone = CountDone(w.sent),
        !.done_last = (w.sent # <<>> /\ w.sent[Len(w.sent)].type = "done"),
        !.succeeded = (\E i \in 1..Len(w.sent) :
                          w.sent[i].type = "progress" /\ w.sent[i].pct = 100)]

(***************************************************************************)
(* Settings persistence: load_settings / save_settings                     *)
(***************************************************************************)
PyStr(v) == [py |-> "str", v |-> v]
PyInt(v) == [py |-> "int", v |-> v]
PyBool(v) == [py |-> "bool", v |-> v]

\* json.dump of a flat dict: each value becomes the JSON value of its type
JsonDump(d) ==
    [k \in DOMAIN d |->
        CASE d[k].py = "str" -> [js |-> "string", v |-> d[k].v]
          [] d[k].py = "int" -> [js |-> "number", v |-> d[k].v]
          [] d[k].py = "bool" -> [js |-> "true/false", v |-> d[k].v]]

\* json.load of a JSON object
JsonLoad(o) ==
    [k \in DOMAIN o |->
        CASE o[k].js = "string" -> PyStr(o[k].v)
          [] o[k].js = "number" -> PyInt(o[k].v)
          [] o[k].js = "true/false" -> PyBool(o[k].v)]

\* Path("gui_settings.json").exists() is False
NoFile == [exists |-> FALSE, wellformed |-> FALSE, obj |-> <<>>]

\* the tk variables as one record
Config ==
    [model |-> model_var, url |-> url_var, entry |-> url_entry, out |-> out_var,
     ctx |-> ctx_var, device |-> device_var, safe |-> safe_ser_var]

\* on_model_change, on the record of tk variables
OnModelChange(c) ==
    LET info == ModelInfoOf(c.model) IN
    IF info = <<>> THEN c
    ELSE [c EXCEPT !.url = info[1].url,
                   !.entry = IF info[1].url # <<>> THEN "readonly" ELSE "normal"]

\* build_ui: the widgets' initial values, then _set_default_model
BuildUi ==
    LET c == [model |-> <<>>, url |-> <<>>, entry |-> "normal",
              out |-> "./output", ctx |-> 4096, device |-> "gpu", safe |-> TRUE]
    IN IF Len(values) > 1 THEN OnModelChange([c EXCEPT !.model = values[2]])
       ELSE c

\* dict.get(key, default)
Get(d, k, default) == IF k \in DOMAIN d THEN d[k] ELSE default

\* load_settings applied to the tk variables c with the file f on disk
LoadSettings(c, f) ==
    IF ~f.exists THEN c
    ELSE IF ~f.wellformed THEN c   \* json.load raises: printed, nothing set
    ELSE
      LET settings == JsonLoad(f.obj)
          c1 == IF "model" \in DOMAIN settings /\ InValues(settings["model"].v)
                THEN OnModelChange([c EXCEPT !.model = settings["model"].v])
                ELSE c
      IN [c1 EXCEPT
            !.out = Get(settings, "output_path", PyStr(c1.out)).v,
            !.ctx = Get(settings, "context_length", PyInt(c1.ctx)).v,
            !.device = Get(settings, "device", PyStr("gpu")).v,
            !.safe = Get(settings, "safe_serialization", PyBool(TRUE)).v]

\* LoadReport, were the except clause of load_settings to pass in silence
LoadReport_Silent(f) == "none"

\* load_settings: the line it prints when json.load raises (or the document
\* is no object and settings.get raises), before any variable is set
LoadReport(f) ==
    IF f.exists /\ ~f.wellformed THEN "load_error" ELSE "none"

\* save_settings: the file written from the tk variables
SaveSettings ==
    LET settings ==
          [model |-> PyStr(model_var), output_path |-> PyStr(out_var),
           context_length |-> PyInt(ctx_var), device |-> PyStr(device_var),
           safe_serialization |-> PyBool(safe_ser_var)]
    IN [exists |-> TRUE, wellformed |-> TRUE, obj |-> JsonDump(settings)]

\* ConverterGUI.__init__ in a new process, with file f on disk
NewSession(f) ==
    LET c == LoadSettings(BuildUi, f) IN
    /\ model_var' = c.model
    /\ url_var' = c.url
    /\ url_entry' = c.entry
    /\ out_var' = c.out
    /\ ctx_var' = c.ctx
    /\ device_var' = c.device
    /\ safe_ser_var' = c.safe
    /\ start_btn' = "normal"
    /\ stop_btn' = "disabled"
    /\ progress' = 0
    /\ status' = "ready"
    /\ dialog' = "none"
    /\ sup' = "idle"
    /\ lag' = 0
    /\ window' = "open"
    /\ proc' = 0
    /\ stop_evt' = FALSE
    /\ pipe' = <<>>
    /\ workers' = [j \in 1..Slots |-> Unborn]
    /\ njobs' = 0
    /\ printed' = LoadReport(f)

Init ==
    LET c == LoadSettings(BuildUi, NoFile) IN
    /\ model_var = c.model
    /\ url_var = c.url
    /\ url_entry = c.entry
    /\ out_var = c.out
    /\ ctx_var = c.ctx
    /\ device_var = c.device
    /\ safe_ser_var = c.safe
    /\ start_btn = "normal"
    /\ stop_btn = "disabled"
    /\ progress = 0
    /\ status = "ready"
    /\ dialog = "none"
    /\ sup = "idle"
    /\ lag = 0
    /\ window = "open"
    /\ proc = 0
    /\ stop_evt = FALSE
    /\ pipe = <<>>
    /\ workers = [j \in 1..Slots |-> Unborn]
    /\ njobs = 0
    /\ settings_file = NoFile
    /\ printed = LoadReport(NoFile)

(***************************************************************************)
(* The user's edits of the form                                            *)
(***************************************************************************)
\* texts the user may type into the URL entry
UrlInputs ==
    { <<>>, <<SP>>, <<"org", SL, "model-a">>, <<SP, "org", SL, "model-a", SL>> }

OutputInputs == { "./output", "D:/models" }

\* ctx_values of the context-length combobox
ctx_values == <<512, 1024, 2048, 4096, 8192, 16384, 32768, 65536, 131072, 262144>>

\* values of the device combobox
device_values == <<"auto", "gpu", "cpu">>

\* <<ComboboxSelected>> on model_cb: the text is set, then on_model_change
SelectModel(v) ==
    /\ window = "open"
    /\ sup = "idle"
    /\ InValues(v)
    /\ LET c == OnModelChange([Config EXCEPT !.model = v]) IN
         /\ model_var' = c.model
         /\ url_var' = c.url
         /\ url_entry' = c.entry
    /\ UNCHANGED <<out_var, ctx_var, device_var, safe_ser_var, guivars, dialog,
                   sup, lag, window, mpvars, settings_file, printed>>

\* typing into url_entry, which a readonly entry refuses
EditUrl(u) ==
    /\ window = "open"
    /\ sup = "idle"
    /\ url_entry = "normal"
    /\ url_var' = u
    /\ UNCHANGED <<model_var, url_entry, out_var, ctx_var, device_var,
                   safe_ser_var, guivars, dialog, sup, lag, window,
                   mpvars, settings_file, printed>>

\* typing into the folder entry, or browse_folder
EditOutput(o) ==
    /\ window = "open"
    /\ sup = "idle"
    /\ out_var' = o
    /\ UNCHANGED <<model_var, url_var, url_entry, ctx_var, device_var,
                   safe_ser_var, guivars, dialog, sup, lag, window,
                   mpvars, settings_file, printed>>

SelectCtx(n) ==
    /\ window = "open"
    /\ sup = "idle"
    /\ ctx_var' = n
    /\ UNCHANGED <<model_var, url_var, url_entry, out_var, device_var,
                   safe_ser_var, guivars, dialog, sup, lag, window,
                   mpvars, settings_file, printed>>

SelectDevice(d) ==
    /\ window = "open"
    /\ sup = "idle"
    /\ device_var' = d
    /\ UNCHANGED <<model_var, url_var, url_entry, out_var, ctx_var,
                   safe_ser_var, guivars, dialog, sup, lag, window,
                   mpvars, settings_file, printed>>

ToggleSafe ==
    /\ window = "open"
    /\ sup = "idle"
    /\ safe_ser_var' = ~safe_ser_var
    /\ UNCHANGED <<model_var, url_var, url_entry, out_var, ctx_var, device_var,
                   guivars, dialog, sup, lag, window,
                   mpvars, settings_file, printed>>

\* on_close (WM_DELETE_WINDOW)
on_close ==
    /\ window = "open"
    /\ sup = "idle"
    /\ IF proc # 0 /\ IsAlive(workers[proc])
       THEN \E ok \in BOOLEAN :
              IF ~ok THEN UNCHANGED vars
              ELSE /\ stop_evt' = TRUE
                   /\ workers' = [workers EXCEPT ![proc] = Ended(@, "killed")]
                   /\ settings_file' = SaveSettings
                   /\ window' = "destroyed"
                   /\ UNCHANGED <<cfgvars, guivars, dialog, sup, lag, proc,
                                  pipe, njobs, printed>>
       ELSE /\ settings_file' = SaveSettings
            /\ window' = "destroyed"
            /\ UNCHANGED <<cfgvars, guivars, dialog, sup, lag, mpvars, printed>>

\* main() run again: a new process builds the window and loads the settings
Relaunch ==
    /\ window = "destroyed"
    /\ NewSession(settings_file)
    /\ UNCHANGED settings_file

(***************************************************************************)
(* download_worker                                                         *)
(***************************************************************************)
\* The statements of download_worker that report or call a library, in
\* program order.  op: "log" / "status" / "progress" are the send_* helpers,
\* "call" is a library or filesystem call, "done" the send of the finally
\* block.  try: the innermost try block the statement is in ("inner" is the
\* image-processor block, "handler" the two except clauses of the outer
\* block, "finally" its finally clause).
I(at, op, text, pct, try) ==
    [at |-> at, op |-> op, text |-> text, pct |-> pct, try |-> try]

Code ==
    << I("mkdir_out",     "call",     "",               0,   "outer"),
       I("log_start",     "log",      "start",          0,   "outer"),
       I("st_init",       "status",   "init",           0,   "outer"),
       I("pr_0",          "progress", "",               0,   "outer"),
       I("log_device",    "log",      "device",         0,   "outer"),
       I("st_load_model", "status",   "load_model",     0,   "outer"),
       I("pr_15",         "progress", "",               15,  "outer"),
       I("load_model",    "call",     "",               0,   "outer"),
       I("st_load_tok",   "status",   "load_tokenizer", 0,   "outer"),
       I("pr_40",         "progress", "",               40,  "outer"),
       I("load_tok",      "call",     "",               0,   "outer"),
       I("st_load_img",   "status",   "load_imgproc",   0,   "inner"),
       I("pr_55",         "progress", "",               55,  "inner"),
       I("load_img",      "call",     "",               0,   "inner"),
       I("log_no_img",    "log",      "no_imgproc",     0,   "outer"),
       I("st_cleanup",    "status",   "cleanup",        0,   "outer"),
       I("pr_70",         "progress", "",               70,  "outer"),
       I("mkdir_final",   "call",     "",               0,   "outer"),
       I("st_save",       "status",   "saving",         0,   "outer"),
       I("pr_85",         "progress", "",               85,  "outer"),
       I("save_model",    "call",     "",               0,   "outer"),
       I("save_tok",      "call",     "",               0,   "outer"),
       I("save_img",      "call",     "",               0,   "outer"),
       I("log_saved",     "log",      "saved",          0,   "outer"),
       I("st_success",    "status",   "success",        0,   "outer"),
       I("pr_100",        "progress", "",               100, "outer"),
       I("h_cancel",      "log",      "cancelled",      0,   "handler"),
       I("h_error",       "log",      "error",          0,   "handler"),
       I("finally",       "done",     "",               0,   "finally") >>

\* the position of a statement
At(label) == CHOOSE i \in 1..Len(Code) : Code[i].at = label

\* the device branch of lines 60-71: the local device_map
DeviceMap(cfg) ==
    IF cfg.FORCE_CPU THEN "cpu"
    ELSE IF cfg.DEVICE = "cpu" THEN "cpu"
    ELSE IF cfg.DEVICE = "cuda" THEN "cuda"
    ELSE "auto"

\* the device branch of lines 60-71: the text it logs
DeviceLog(cfg) ==
    IF cfg.FORCE_CPU THEN "device_force_cpu"
    ELSE IF cfg.DEVICE = "cpu" THEN "device_cpu"
    ELSE IF cfg.DEVICE = "cuda" THEN "device_force_gpu"
    ELSE "device_auto"

\* the tuple a send_* helper puts on the pipe, tagged with the sending job
\* and its number among the messages of that job
Message(j, w) ==
    LET i == Code[w.pc] IN
    [job |-> j, n |-> Len(w.sent) + 1, type |-> i.op,
     text |-> IF i.at = "log_device" THEN DeviceLog(w.cfg)
              ELSE IF i.at = "h_error" THEN w.err
              ELSE i.text,
     pct |-> i.pct]

\* the statement control reaches after statement pc has completed normally
Follow(w) ==
    LET at == Code[w.pc].at IN
    CASE at = "load_tok" ->
           IF w.cfg.MODEL_TYPE = "vision" THEN At("st_load_img")
           ELSE At("st_cleanup")
      [] at = "load_img" -> At("st_cleanup")
      [] at = "save_tok" ->
           IF w.image_processor THEN At("save_img") ELSE At("log_saved")
      [] at \in {"pr_100", "h_cancel", "h_error"} -> At("finally")
      [] OTHER -> w.pc + 1

\* Raise, were 'done' sent at the end of the try body instead of in a
\* finally clause: an exception raised inside an except clause ends the
\* process at once
Raise_NoFinally(w, e, why) ==
    LET try == Code[w.pc].try IN
    IF try = "inner"
    THEN [w EXCEPT !.pc = At("log_no_img"), !.ph = "check"]
    ELSE IF try = "outer"
    THEN IF e = "KeyboardInterrupt"
         THEN [w EXCEPT !.pc = At("h_cancel"), !.ph = "check"]
         ELSE [w EXCEPT !.pc = At("h_error"), !.ph = "check", !.err = why]
    ELSE Ended(w, "exited")

\* the worker after exception e ("KeyboardInterrupt" or "Exception") is
\* raised at its statement pc: the bare except of the image-processor block
\* catches both, the outer block dispatches on the type, and an exception
\* raised inside an except clause passes through the finally clause
Raise(w, e, why) ==
    LET try == Code[w.pc].try IN
    IF try = "inner"
    THEN [w EXCEPT !.pc = At("log_no_img"), !.ph = "check"]
    ELSE IF try = "outer"
    THEN IF e = "KeyboardInterrupt"
         THEN [w EXCEPT !.pc = At("h_cancel"), !.ph = "check"]
         ELSE [w EXCEPT !.pc = At("h_error"), !.ph = "check", !.err = why]
    ELSE [w EXCEPT !.pc = At("finally"), !.ph = "check", !.exc = e]

\* a worker may take a step: its process runs; while the supervisor is
\* between the two calls of stop(), at most MaxKillLag steps are taken
CanStep(w) == IsAlive(w) /\ (sup = "stopping" => lag < MaxKillLag)

\* the step is counted
Tick == lag' = IF sup = "stopping" THEN lag + 1 ELSE lag

\* send_log / send_progress / send_status, first half: stop_evt.is_set()
WCheck(j) ==
    LET w == workers[j] IN
    /\ CanStep(w)
    /\ Code[w.pc].op \in {"log", "status", "progress"}
    /\ w.ph = "check"
    /\ workers' = [workers EXCEPT ![j] =
          IF stop_evt
          THEN [Raise(w, "KeyboardInterrupt", "") EXCEPT !.interrupted = TRUE]
          ELSE [w EXCEPT !.ph = "send"]]
    /\ Tick
    /\ UNCHANGED <<cfgvars, guivars, dialog, sup, window, proc, stop_evt, pipe,
                   njobs, settings_file, printed>>

\* send_log / send_progress / send_status, second half: conn.send(...)
WSend(j) ==
    LET w == workers[j] IN
    /\ CanStep(w)
    /\ Code[w.pc].op \in {"log", "status", "progress"}
    /\ w.ph = "send"
    /\ Len(pipe) < MaxPipe
    /\ pipe' = Append(pipe, Message(j, w))
    /\ workers' = [workers EXCEPT ![j] =
          [w EXCEPT !.sent = Append(@, Message(j, w)),
                    !.pc = Follow(w), !.ph = "check"]]
    /\ Tick
    /\ UNCHANGED <<cfgvars, guivars, dialog, sup, window, proc, stop_evt,
                   njobs, settings_file, printed>>

\* BitsAndBytesConfig(...) of lines 74-83 (the compute dtype, which depends
\* on the machine, is left out)
bnb_config ==
    [load_in_4bit |-> TRUE, bnb_4bit_use_double_quant |-> TRUE,
     bnb_4bit_quant_type |-> "nf4"]

\* one from_pretrained call of a model loader and how it ended; None is <<>>
LoaderCall(loader, cfg, result) ==
    [loader |-> loader,
     url |-> cfg.TARGET_MODEL_URL,
     quantization_config |-> IF DeviceMap(cfg) # "cpu" THEN <<bnb_config>> ELSE <<>>,
     device_map |-> DeviceMap(cfg),
     trust_remote_code |-> TRUE,
     dtype |-> IF DeviceMap(cfg) = "cpu" THEN <<"float16">> ELSE <<>>,
     result |-> result]

\* out_dir / f"{repo}-bnb4"
FinalPath(cfg) ==
    <<cfg.OUTPUT_PATH, Repo(cfg.TARGET_MODEL_URL) \o <<"-bnb4">>>>

\* What a library or filesystem call has done by the time it returns or
\* raises.  load_model: AutoModelForImageTextToText is called for a vision
\* job only (ok2: it returns); on any Exception of that block, the
\* ValueError of a text job included, AutoModelForCausalLM is called (ok: it
\* returns).
Called(w, ok, ok2) ==
    LET at == Code[w.pc].at
        res(b) == IF b THEN "returned" ELSE "raised"
    IN
    CASE at = "load_model" ->
           [w EXCEPT !.loads =
               IF w.cfg.MODEL_TYPE = "vision"
               THEN IF ok2 THEN <<LoaderCall("vision", w.cfg, "returned")>>
                    ELSE <<LoaderCall("vision", w.cfg, "raised"),
                           LoaderCall("generic", w.cfg, res(ok))>>
               ELSE <<LoaderCall("generic", w.cfg, res(ok))>>]
      [] at = "mkdir_out" -> [w EXCEPT !.dirs = @ \cup {<<w.cfg.OUTPUT_PATH>>}]
      [] at = "mkdir_final" ->
           [w EXCEPT !.final_path = FinalPath(w.cfg),
                     !.dirs = @ \cup {FinalPath(w.cfg)}]
      [] OTHER -> w

\* what a library or filesystem call leaves behind when it returns
Returned(w, ok2) ==
    LET at == Code[w.pc].at IN
    CASE at = "load_model" ->
           [w EXCEPT !.model =
               IF w.cfg.MODEL_TYPE = "vision" /\ ok2 THEN "vision" ELSE "generic"]
      [] at = "load_tok" -> [w EXCEPT !.tokenizer = TRUE]
      [] at = "load_img" -> [w EXCEPT !.image_processor = TRUE]
      [] at = "save_model" -> [w EXCEPT !.saved = @ \cup {"model"}]
      [] at = "save_tok" -> [w EXCEPT !.saved = @ \cup {"tokenizer"}]
      [] at = "save_img" -> [w EXCEPT !.saved = @ \cup {"image_processor"}]
      [] OTHER -> w

\* a library or filesystem call: it returns (ok) or raises an Exception;
\* ok2 is the outcome of the vision loader that load_model tries first
WCall(j) ==
    LET w == workers[j] IN
    /\ CanStep(w)
    /\ Code[w.pc].op = "call"
    /\ \E ok \in BOOLEAN, ok2 \in BOOLEAN :
         /\ (Code[w.pc].at # "load_model" \/ w.cfg.MODEL_TYPE # "vision") => ok2
         /\ (Code[w.pc].at = "load_model" /\ ok2 /\ w.cfg.MODEL_TYPE = "vision") => ok
         /\ workers' = [workers EXCEPT ![j] =
              IF ok THEN [Returned(Called(w, ok, ok2), ok2) EXCEPT !.pc = Follow(w)]
              ELSE Raise(Called(w, ok, ok2), "Exception", Code[w.pc].at)]
    /\ Tick
    /\ UNCHANGED <<cfgvars, guivars, dialog, sup, window, proc, stop_evt, pipe,
                   njobs, settings_file, printed>>

\* the finally clause: conn.send(('done', None)), conn.close(), and the
\* process ends (with the exception still in flight, if any)
WFinally(j) ==
    LET w == workers[j] IN
    /\ CanStep(w)
    /\ Code[w.pc].op = "done"
    /\ Len(pipe) < MaxPipe
    /\ pipe' = Append(pipe, Message(j, w))
    /\ workers' = [workers EXCEPT ![j] =
          Ended([w EXCEPT !.sent = Append(@, Message(j, w))], "exited")]
    /\ Tick
    /\ UNCHANGED <<cfgvars, guivars, dialog, sup, window, proc, stop_evt,
                   njobs, settings_file, printed>>

(***************************************************************************)
(* ConverterGUI: start / stop / _reset_interface / check_pipe              *)
(* (the text of the log widget is not modelled)                            *)
(***************************************************************************)
\* the dict start() passes to the worker
JobConfig ==
    LET info == ModelInfoOf(model_var)
        device_setting == device_var
    IN [TARGET_MODEL_URL |-> Strip(url_var),
        OUTPUT_PATH |-> out_var,
        MODEL_TYPE |-> IF info = <<>> THEN "vision" ELSE info[1].type,
        SAFE_SERIALIZATION |-> safe_ser_var,
        MAX_SEQ_LENGTH |-> ctx_var,
        FORCE_CPU |-> (device_setting = "cpu"),
        DEVICE |-> IF device_setting \in {"cpu", "cuda"} THEN device_setting
                   ELSE "auto"]

\* start, were the URL tested without strip()
start_NoStrip ==
    /\ window = "open"
    /\ sup = "idle"
    /\ start_btn = "normal"
    /\ IF url_var = <<>>
       THEN /\ dialog' = "showerror"
            /\ UNCHANGED <<cfgvars, guivars, sup, lag, window, mpvars,
                           settings_file, printed>>
       ELSE /\ njobs < Len(workers)
            /\ start_btn' = "disabled"
            /\ stop_btn' = "normal"
            /\ progress' = 0
            /\ status' = "starting"
            /\ stop_evt' = FALSE
            /\ njobs' = njobs + 1
            /\ proc' = njobs + 1
            /\ workers' = [workers EXCEPT ![njobs + 1] =
                  [Unborn EXCEPT !.state = "alive", !.cfg = JobConfig]]
            /\ dialog' = "none"
            /\ UNCHANGED <<cfgvars, sup, lag, window, pipe, settings_file, printed>>

\* start: the "start" button's command
start ==
    /\ window = "open"
    /\ sup = "idle"
    /\ start_btn = "normal"
    /\ IF Strip(url_var) = <<>>
       THEN /\ dialog' = "showerror"
            /\ UNCHANGED <<cfgvars, guivars, sup, lag, window, mpvars,
                           settings_file, printed>>
       ELSE /\ njobs < Len(workers)
            /\ start_btn' = "disabled"
            /\ stop_btn' = "normal"
            /\ progress' = 0
            /\ status' = "starting"
            /\ stop_evt' = FALSE
            /\ njobs' = njobs + 1
            /\ proc' = njobs + 1
            /\ workers' = [workers EXCEPT ![njobs + 1] =
                  [Unborn EXCEPT !.state = "alive", !.cfg = JobConfig]]
            /\ dialog' = "none"
            /\ UNCHANGED <<cfgvars, sup, lag, window, pipe, settings_file, printed>>

\* the worker as a confirmed stop leaves it: the flag is set for every live
\* worker (they share the Event); cancelled, sent_at_cancel and
\* saved_at_cancel remember what it had sent and saved by then
Cancelled(w) ==
    IF IsAlive(w)
    THEN [w EXCEPT !.cancelled = TRUE, !.sent_at_cancel = Len(w.sent),
                   !.saved_at_cancel = w.saved]
    ELSE w

\* what stop() reads and writes, as one record
StopView ==
    [stop_evt |-> stop_evt, proc |-> proc, workers |-> workers,
     start_btn |-> start_btn, stop_btn |-> stop_btn, status |-> status]

\* SetFlag, were the flag flipped instead of set
SetFlag_Toggle(s) ==
    [s EXCEPT !.stop_evt = ~s.stop_evt,
              !.workers = [j \in DOMAIN s.workers |-> Cancelled(s.workers[j])]]

\* stop_evt.set()
SetFlag(s) ==
    [s EXCEPT !.stop_evt = TRUE,
              !.workers = [j \in DOMAIN s.workers |-> Cancelled(s.workers[j])]]

\* Terminate, were _reset_interface to enable the start button only
Terminate_HalfReset(s) ==
    LET call == s.proc # 0 /\ IsAlive(s.workers[s.proc]) IN
    [s EXCEPT !.workers = IF call
                          THEN [s.workers EXCEPT ![s.proc] = Ended(@, "killed")]
                          ELSE s.workers,
              !.start_btn = "normal",
              !.status = "cancelled"]

\* the rest of stop: proc.terminate() if there is a process and it is alive
\* (the SIGTERM ends it where it stands), _reset_interface, the status line
Terminate(s) ==
    LET call == s.proc # 0 /\ IsAlive(s.workers[s.proc]) IN
    [s EXCEPT !.workers = IF call
                          THEN [s.workers EXCEPT ![s.proc] = Ended(@, "killed")]
                          ELSE s.workers,
              !.start_btn = "normal",
              !.stop_btn = "disabled",
              !.status = "cancelled"]

\* stop() with the answer yes, from its first statement to its last
StopOf(s) == Terminate(SetFlag(s))

\* stop, the "stop" button's command, up to stop_evt.set(); yes is the
\* answer to askyesno
stop ==
    /\ window = "open"
    /\ sup = "idle"
    /\ stop_btn = "normal"
    /\ \E yes \in BOOLEAN :
         IF ~yes THEN UNCHANGED vars
         ELSE /\ stop_evt' = SetFlag(StopView).stop_evt
              /\ workers' = SetFlag(StopView).workers
              /\ sup' = "stopping"
              /\ lag' = 0
              /\ dialog' = "none"
              /\ UNCHANGED <<cfgvars, guivars, window, proc, pipe, njobs,
                             settings_file, printed>>

\* the rest of stop, after the worker steps taken meanwhile
stop_terminate ==
    /\ sup = "stopping"
    /\ workers' = Terminate(StopView).workers
    /\ start_btn' = Terminate(StopView).start_btn
    /\ stop_btn' = Terminate(StopView).stop_btn
    /\ status' = Terminate(StopView).status
    /\ sup' = "idle"
    /\ lag' = 0
    /\ UNCHANGED <<cfgvars, progress, dialog, window, proc, stop_evt, pipe,
                   njobs, settings_file, printed>>

\* the widgets as one record
Gui ==
    [start_btn |-> start_btn, stop_btn |-> stop_btn, progress |-> progress,
     status |-> status, dialog |-> dialog]

\* Handle, were 'done' to show the result without _reset_interface
Handle_NoReset(g, m) ==
    CASE m.type = "progress" ->
           [g EXCEPT !.progress = m.pct,
                     !.status = IF m.text # "" THEN "running_stage" ELSE @]
      [] m.type = "log" -> g
      [] m.type = "status" -> [g EXCEPT !.status = m.text]
      [] m.type = "done" ->
           [g EXCEPT !.status = "done_success", !.dialog = "showinfo"]
      [] OTHER -> g

\* the body of check_pipe's loop for one received message
Handle(g, m) ==
    CASE m.type = "progress" ->
           [g EXCEPT !.progress = m.pct,
                     !.status = IF m.text # "" THEN "running_stage" ELSE @]
      [] m.type = "log" -> g
      [] m.type = "status" -> [g EXCEPT !.status = m.text]
      [] m.type = "done" ->
           \* _reset_interface, the status line, showinfo
           [g EXCEPT !.start_btn = "normal", !.stop_btn = "disabled",
                     !.status = "done_success", !.dialog = "showinfo"]
      [] OTHER -> g

\* Drain, were the newest message handled first
RECURSIVE Drain_NewestFirst(_, _)
Drain_NewestFirst(g, msgs) ==
    IF msgs = <<>> THEN g
    ELSE Handle(Drain_NewestFirst(g, Tail(msgs)), Head(msgs))

\* while self.parent_conn.poll(): recv and handle
RECURSIVE Drain(_, _)
Drain(g, msgs) ==
    IF msgs = <<>> THEN g ELSE Drain(Handle(g, Head(msgs)), Tail(msgs))

\* check_pipe: one timer cycle; root.after reschedules it
check_pipe ==
    /\ window = "open"
    /\ sup = "idle"
    /\ LET g == Drain([Gui EXCEPT !.dialog = "none"], pipe) IN
         /\ start_btn' = g.start_btn
         /\ stop_btn' = g.stop_btn
         /\ progress' = g.progress
         /\ status' = g.status
         /\ dialog' = g.dialog
    /\ pipe' = <<>>
    /\ UNCHANGED <<cfgvars, sup, lag, window, proc, stop_evt, workers, njobs,
                   settings_file, printed>>

(***************************************************************************)
(* Specifications                                                          *)
(***************************************************************************)
\* the catalog lines the user picks in Spec: a text model and the custom
\* entry (a vision job)
SpecModels ==
    { ModelValue(model_groups[2].models[1]), ModelValue(model_groups[4].models[1]) }

SpecUrls == { <<>>, <<SP>>, <<"org", SL, "model-a">> }

\* no job is under way: the start button is enabled, no worker process is
\* left and the pipe is empty
Quiet ==
    /\ start_btn = "normal"
    /\ pipe = <<>>
    /\ \A j \in DOMAIN workers : ~IsAlive(workers[j])

\* In Spec the user edits the form between jobs; a job reads the form only
\* in start(), which passes the worker a copy.
Next ==
    \/ Quiet /\ \E v \in SpecModels : SelectModel(v)
    \/ Quiet /\ \E u \in SpecUrls : EditUrl(u)
    \/ (njobs < MaxJobs \/ Strip(url_var) = <<>>) /\ start
    \/ stop
    \/ stop_terminate
    \/ check_pipe
    \/ \E j \in 1..MaxJobs : WCheck(j)
    \/ \E j \in 1..MaxJobs : WSend(j)
    \/ \E j \in 1..MaxJobs : WCall(j)
    \/ \E j \in 1..MaxJobs : WFinally(j)

\* supervisor and workers of one session
Spec == Init /\ [][Next]_vars

\* the combobox lines the user picks in SettingsSpec: the first header, and
\* the lines of Spec
SettingsModels == { values[1], values[2] } \cup SpecModels

\* the context lengths the user picks in SettingsSpec
SettingsCtx == { ctx_values[1], ctx_values[4], ctx_values[Len(ctx_values)] }

SettingsNext ==
    \/ \E v \in SettingsModels : SelectModel(v)
    \/ \E u \in UrlInputs : EditUrl(u)
    \/ \E o \in OutputInputs : EditOutput(o)
    \/ \E n \in SettingsCtx : SelectCtx(n)
    \/ \E i \in 1..Len(device_values) : SelectDevice(device_values[i])
    \/ ToggleSafe
    \/ on_close
    \/ Relaunch

\* the form and the settings file, over sessions
SettingsSpec == Init /\ [][SettingsNext]_vars

\* a JSON string, number, true/false
JStr(v) == [js |-> "string", v |-> v]
JNum(v) == [js |-> "number", v |-> v]
JBool(v) == [js |-> "true/false", v |-> v]

\* the keys load_settings reads
SettingsKeys ==
    {"model", "output_path", "context_length", "device", "safe_serialization"}

\* a line that is not in the catalog (a model of another release)
UnknownModel == <<SP, SP, "Removed-Model">>

\* The JSON object with the members given: each of m, o, c, d, s is <<>>
\* (the key is absent) or <<value>>.
SettingsObject(m, o, c, d, s) ==
    LET opt == [model |-> m, output_path |-> o, context_length |-> c,
                device |-> d, safe_serialization |-> s]
    IN [k \in { k \in SettingsKeys : opt[k] # <<>> } |-> opt[k][1]]

\* the gui_settings.json files a session may find: none, one json.load
\* rejects, and the objects with any of the five keys present or absent
SettingsFiles ==
    { NoFile, [exists |-> TRUE, wellformed |-> FALSE, obj |-> <<>>] } \cup
    { [exists |-> TRUE, wellformed |-> TRUE, obj |-> SettingsObject(m, o, c, d, s)] :
        m \in {<<>>} \cup { <<JStr(v)>> : v \in {values[1], UnknownModel} \cup SpecModels },
        o \in {<<>>, <<JStr("./output")>>, <<JStr("D:/models")>>},
        c \in {<<>>, <<JNum(512)>>, <<JNum(4096)>>},
        d \in {<<>>, <<JStr("auto")>>, <<JStr("cpu")>>},
        s \in {<<>>, <<JBool(TRUE)>>, <<JBool(FALSE)>>} }

\* before main() runs: no window yet, and some file (or none) on disk
LoadInit ==
    /\ model_var = BuildUi.model
    /\ url_var = BuildUi.url
    /\ url_entry = BuildUi.entry
    /\ out_var = BuildUi.out
    /\ ctx_var = BuildUi.ctx
    /\ device_var = BuildUi.device
    /\ safe_ser_var = BuildUi.safe
    /\ start_btn = "normal"
    /\ stop_btn = "disabled"
    /\ progress = 0
    /\ status = "ready"
    /\ dialog = "none"
    /\ sup = "idle"
    /\ lag = 0
    /\ window = "destroyed"
    /\ proc = 0
    /\ stop_evt = FALSE
    /\ pipe = <<>>
    /\ workers = [j \in 1..Slots |-> Unborn]
    /\ njobs = 0
    /\ settings_file \in SettingsFiles
    /\ printed = "none"

LoadNext ==
    \/ Relaunch
    \/ on_close

\* sessions started over the files of SettingsFiles
LoadSpec == LoadInit /\ [][LoadNext]_vars

\* the texts the user types into the URL entry in JobSpec
JobUrls ==
    UrlInputs \cup { <<"model-a">>, <<"org", SL, "model-a", SL, SL>>, <<SL>> }

\* the first job of a session, for every configuration of the form; the
\* form is edited before the job is started
JobNext ==
    \/ njobs = 0 /\ \E v \in SpecModels \cup {values[2]} : SelectModel(v)
    \/ njobs = 0 /\ \E u \in JobUrls : EditUrl(u)
    \/ njobs = 0 /\ \E o \in OutputInputs : EditOutput(o)
    \/ njobs = 0 /\ \E i \in 1..Len(device_values) : SelectDevice(device_values[i])
    \/ njobs = 0 /\ start
    \/ check_pipe
    \/ WCheck(1)
    \/ WSend(1)
    \/ WCall(1)
    \/ WFinally(1)

JobSpec == Init /\ [][JobNext]_vars

\* Sessions in which the user starts and stops up to Slots jobs, with the
\* form left as it is, and only the workers of the first MaxJobs jobs get
\* to run before they are stopped (a new process first imports torch and
\* transformers, which takes seconds).
RestartNext ==
    \/ start
    \/ stop
    \/ stop_terminate
    \/ check_pipe
    \/ \E j \in 1..MaxJobs : WCheck(j)
    \/ \E j \in 1..MaxJobs : WSend(j)
    \/ \E j \in 1..MaxJobs : WCall(j)
    \/ \E j \in 1..MaxJobs : WFinally(j)

RestartSpec == Init /\ [][RestartNext]_vars

\* Sessions of RestartSpec which the user may end by closing the window; when
\* root.destroy() has ended mainloop() the interpreter exits, and its
\* daemon processes with it.
CloseNext ==
    \/ start
    \/ stop
    \/ stop_terminate
    \/ check_pipe
    \/ window = "open" /\ \E j \in 1..MaxJobs : WCheck(j)
    \/ window = "open" /\ \E j \in 1..MaxJobs : WSend(j)
    \/ window = "open" /\ \E j \in 1..MaxJobs : WCall(j)
    \/ window = "open" /\ \E j \in 1..MaxJobs : WFinally(j)
    \/ on_close

CloseSpec == Init /\ [][CloseNext]_vars

\* Spec with the scheduling the platform gives: the timer reschedules
\* check_pipe after every cycle, a live process keeps running, and stop()
\* runs to its end once called
LiveSpec ==
    /\ Init
    /\ [][Next]_vars
    /\ WF_vars(check_pipe)
    /\ WF_vars(stop_terminate)
    /\ \A j \in 1..MaxJobs :
         WF_vars(WCheck(j) \/ WSend(j) \/ WCall(j) \/ WFinally(j))

(***************************************************************************)
(* Properties                                                              *)
(***************************************************************************)
\* the jobs of a session
Jobs == 1..Slots

\* message i of seq is a log line with this text
IsLog(m, text) == m.type = "log" /\ m.text = text

\* a 'done' of job j waits in the pipe
DonePending(j) == \E i \in 1..Len(pipe) : pipe[i].job = j /\ pipe[i].type = "done"

\* C1: at most one worker process is alive, and the start button is never
\* enabled while a worker is alive.
C1_SingleWorker ==
    /\ Cardinality({ j \in Jobs : IsAlive(workers[j]) }) <= 1
    /\ (\E j \in Jobs : IsAlive(workers[j])) => start_btn = "disabled"

\* C2: a start() with a blank URL (empty, or whitespace only) shows the
\* error box, spawns no worker, and leaves the buttons, the progress value,
\* the status text and the cancellation flag as they were.
C2_BlankUrlRejected ==
    [][ (start /\ Strip(url_var) = <<>>) =>
          /\ dialog' = "showerror"
          /\ UNCHANGED <<proc, workers, njobs, pipe>>
          /\ UNCHANGED <<start_btn, stop_btn, progress, status, stop_evt>> ]_vars

\* a blank URL of blanks has been rejected after an earlier job was stopped
\* part-way
C2_Witness ==
    /\ dialog = "showerror"
    /\ url_var # <<>>
    /\ Strip(url_var) = <<>>
    /\ stop_evt
    /\ progress > 0
    /\ status = "cancelled"
    /\ njobs = 1

\* job j ran to success: its process returned after reporting progress 100,
\* and no stop was confirmed while it ran
RanToSuccess(j) ==
    /\ workers[j].state = "exited"
    /\ workers[j].succeeded
    /\ ~workers[j].cancelled

\* the supervisor has received the 'done' of job j and is ready for a new job
DoneReceived(j) ==
    /\ ~DonePending(j)
    /\ start_btn = "normal"
    /\ stop_btn = "disabled"

\* C3: after a job has run to success the supervisor eventually receives
\* its 'done', and the start button is enabled and the stop button disabled.
C3_SuccessIsReceived ==
    \A j \in Jobs : RanToSuccess(j) ~> DoneReceived(j)

\* the 'done' of a successful second job has been handled
C3_Witness ==
    /\ RanToSuccess(2)
    /\ DoneReceived(2)
    /\ status = "done_success"
    /\ progress = 100

\* C4: the worker of a job that was cancelled while running has sent 'done'
\* by the time its process has ended.
C4_CancelledSendsDone ==
    \A j \in Jobs :
       (workers[j].cancelled /\ ~IsAlive(workers[j])) => workers[j].ndone >= 1

\* C5: a worker sends no 'progress' message after the cancellation request
\* that set the flag for its job.
C5_NoProgressAfterCancel ==
    \A j \in Jobs :
       (IsAlive(workers[j]) /\ workers[j].cancelled) =>
          \A i \in 1..Len(workers[j].sent) :
             i > workers[j].sent_at_cancel => workers[j].sent[i].type # "progress"

\* C6: a worker that reaches its finally clause after a library or
\* filesystem call raised an Exception has sent the log line with the error.
C6_ErrorIsLogged ==
    \A j \in Jobs :
       (IsAlive(workers[j]) /\ workers[j].pc = At("finally") /\ workers[j].err # "")
          => \E i \in 1..Len(workers[j].sent) :
                IsLog(workers[j].sent[i], workers[j].err)

C8_CancelIsLogged ==
    \A j \in Jobs :
       (IsAlive(workers[j]) /\ workers[j].pc = At("finally")
          /\ workers[j].interrupted)
          => \E i \in 1..Len(workers[j].sent) :
                IsLog(workers[j].sent[i], "cancelled")

\* C9: once a stop is confirmed while a job runs, its worker completes no
\* further save, and has sent 'done' by the time its process has ended.
C9_CancelStopsSaving ==
    \A j \in Jobs :
       workers[j].cancelled =>
          /\ IsAlive(workers[j]) => workers[j].saved = workers[j].saved_at_cancel
          /\ ~IsAlive(workers[j]) => workers[j].ndone >= 1

\* the configuration values of the form
ConfigValues ==
    [model |-> model_var, url |-> url_var, out |-> out_var, ctx |-> ctx_var,
     device |-> device_var, safe |-> safe_ser_var]

\* C10: when the window is closed with a model selected (a header line of
\* the list is none), the session that follows the close (save_settings)
\* starts (load_settings) with the configuration values the closed one had:
\* model, URL, output path, context length, device and safe-serialization.
C10_SettingsRoundTrip ==
    [][ (window = "destroyed" /\ window' = "open"
           /\ ModelInfoOf(model_var) # <<>>) =>
           ConfigValues' = ConfigValues ]_vars

\* the first model of the catalog, as the selector shows it
FirstModel == ModelValue(model_groups[1].models[1])

\* member k of the settings object on disk, or default if it has none
FileValue(k, default) ==
    IF k \in DOMAIN settings_file.obj THEN settings_file.obj[k].v ELSE default

\* the form shows the defaults
AllDefaults ==
    /\ model_var = FirstModel
    /\ url_var = model_groups[1].models[1].url
    /\ out_var = "./output"
    /\ ctx_var = 4096
    /\ device_var = "gpu"
    /\ safe_ser_var = TRUE

\* the four settings other than the model are the file's, or their defaults
OtherFieldsLoaded ==
    /\ out_var = FileValue("output_path", "./output")
    /\ ctx_var = FileValue("context_length", 4096)
    /\ device_var = FileValue("device", "gpu")
    /\ safe_ser_var = FileValue("safe_serialization", TRUE)

\* C11 as stated: a session started over a settings object shows each
\* present field's value, the model included, and the default of each
\* absent one; over no file or a malformed one it shows the defaults.
C11_PresentFieldsApplied ==
    window = "open" =>
       IF settings_file.exists /\ settings_file.wellformed
       THEN /\ OtherFieldsLoaded
            /\ model_var = FileValue("model", FirstModel)
       ELSE AllDefaults

\* C11, amended: a session started over a settings object shows the default
\* of each absent field and the value of each present one, but a model
\* that is not a line of the selector is ignored and the first catalog
\* model stays selected; over a malformed file the error is printed and
\* the form shows the defaults; over no file it shows the defaults; in
\* every case the window opens.
C11_LoadDefaults ==
    window = "open" =>
       IF settings_file.exists /\ settings_file.wellformed
       THEN /\ OtherFieldsLoaded
            /\ model_var = IF InValues(FileValue("model", FirstModel))
                           THEN FileValue("model", FirstModel)
                           ELSE FirstModel
            /\ printed = "none"
       ELSE /\ AllDefaults
            /\ printed = IF settings_file.exists THEN "load_error" ELSE "none"

\* a session runs over an object that has a device and a safe-serialization
\* flag but no output path, context length or model
C11_Witness ==
    /\ window = "open"
    /\ settings_file.exists
    /\ settings_file.wellformed
    /\ DOMAIN settings_file.obj = {"device", "safe_serialization"}
    /\ device_var = "cpu"
    /\ ~safe_ser_var
    /\ out_var = "./output"
    /\ ctx_var = 4096
    /\ model_var = FirstModel

\* C12: in every state where the stop button can be pressed, a confirmed
\* stop leaves the flag set, the process of the job not alive, the start
\* button enabled, the stop button disabled and the cancelled status; a
\* second confirmed stop right after it leaves exactly that state, and
\* finds no live process to terminate.
C12_DoubleStopIdempotent ==
    (window = "open" /\ sup = "idle" /\ stop_btn = "normal") =>
       LET once == StopOf(StopView)
           twice == StopOf(once)
       IN /\ twice = once
          /\ once.stop_evt
          /\ once.proc # 0 /\ ~IsAlive(once.workers[once.proc])
          /\ once.start_btn = "normal"
          /\ once.stop_btn = "disabled"
          /\ once.status = "cancelled"

\* a stop has just ended the worker of job 1 before it sent anything, and a
\* second stop would find its process dead
C12_Witness ==
    /\ sup = "idle"
    /\ status = "cancelled"
    /\ stop_evt
    /\ proc = 1
    /\ workers[1].state = "killed"
    /\ workers[1].cancelled
    /\ StopOf(StopView) = StopView

\* the placement directive each line of the device selector stands for
\* (the note of the settings tab: gpu forces the GPU)
Directive(choice) ==
    CASE choice = "auto" -> "auto"
      [] choice = "gpu" -> "cuda"
      [] choice = "cpu" -> "cpu"

\* C13: every model loader call of a job is given the placement directive
\* of the device the user chose: auto for auto, cuda for gpu, cpu for cpu.
C13_DeviceReachesLoader ==
    \A j \in Jobs :
       IsAlive(workers[j]) =>
          \A i \in 1..Len(workers[j].loads) :
             workers[j].loads[i].device_map = Directive(device_var)

\* the 4-bit quantization configuration of the claim
FourBit(q) ==
    /\ q.load_in_4bit
    /\ q.bnb_4bit_use_double_quant
    /\ q.bnb_4bit_quant_type = "nf4"

\* C14: every model loader call of a job, whatever the device and the
\* modality, is given the 4-bit quantization configuration (4-bit, double
\* quantization, nf4) and trust_remote_code = True.
C14_LoaderQuantized ==
    \A j \in Jobs :
       IsAlive(workers[j]) =>
          \A i \in 1..Len(workers[j].loads) :
             LET c == workers[j].loads[i] IN
             /\ c.trust_remote_code
             /\ c.quantization_config # <<>>
             /\ FourBit(c.quantization_config[1])

\* u is url with its trailing slashes removed
IsRStripped(u, url) ==
    \E k \in 0..Len(url) :
       /\ u = SubSeq(url, 1, k)
       /\ k = 0 \/ url[k] # SL
       /\ \A i \in (k + 1)..Len(url) : url[i] = SL

\* seg is the last '/'-separated segment of u
IsLastSegment(seg, u) ==
    \E m \in 0..Len(u) :
       /\ seg = SubSeq(u, m + 1, Len(u))
       /\ m = 0 \/ u[m] = SL
       /\ \A i \in (m + 1)..Len(u) : u[i] # SL

\* path is <repo-name>-bnb4 under the output root of the form, for the
\* source identifier of the form
IsOutputDirectory(path) ==
    /\ Len(path) = 2
    /\ path[1] = out_var
    /\ \E k \in 0..Len(Strip(url_var)) :
          LET u == SubSeq(Strip(url_var), 1, k) IN
          /\ IsRStripped(u, Strip(url_var))
          /\ Len(path[2]) >= 1
          /\ path[2][Len(path[2])] = "-bnb4"
          /\ IsLastSegment(SubSeq(path[2], 1, Len(path[2]) - 1), u)

\* C16: what a worker saves it saves into <repo-name>-bnb4 under the
\* configured output root, <repo-name> being the last '/'-separated segment
\* of the source identifier without its trailing slashes; the only other
\* directory it creates is the output root, and <repo-name>-bnb4 is
\* created only once the model and the tokenizer are loaded.
C16_OutputDirectory ==
    \A j \in Jobs :
       IsAlive(workers[j]) =>
          /\ workers[j].saved # {} =>
                /\ IsOutputDirectory(workers[j].final_path)
                /\ workers[j].final_path \in workers[j].dirs
          /\ \A d \in workers[j].dirs :
                \/ d = <<out_var>>
                \/ /\ IsOutputDirectory(d)
                   /\ workers[j].model # "none"
                   /\ workers[j].tokenizer

\* the job of " org/model-a/" has saved model and tokenizer into
\* D:/models/model-a-bnb4
C16_Witness ==
    /\ IsAlive(workers[1])
    /\ url_var = <<SP, "org", SL, "model-a", SL>>
    /\ out_var = "D:/models"
    /\ {"model", "tokenizer"} \subseteq workers[1].saved
    /\ workers[1].final_path = <<"D:/models", <<"model-a", "-bnb4">>>>

\* the numbers of the messages of job j in msgs, in the order of msgs
RECURSIVE NumbersOf(_, _)
NumbersOf(j, msgs) ==
    IF msgs = <<>> THEN <<>>
    ELSE (IF Head(msgs).job = j THEN <<Head(msgs).n>> ELSE <<>>)
         \o NumbersOf(j, Tail(msgs))

\* the channel holds, for each job, a run of its messages in sending order
\* without gaps, and for a running worker the run ends with its latest
ChannelInOrder ==
    \A j \in Jobs :
       LET ns == NumbersOf(j, pipe) IN
       /\ \A i \in 1..(Len(ns) - 1) : ns[i + 1] = ns[i] + 1
       /\ (IsAlive(workers[j]) /\ ns # <<>>) => ns[Len(ns)] = Len(workers[j].sent)

\* the widgets after the first k messages of msgs are handled one after
\* the other, starting from g
RECURSIVE HandledUpTo(_, _, _)
HandledUpTo(g, msgs, k) ==
    IF k = 0 THEN g ELSE Handle(HandledUpTo(g, msgs, k - 1), msgs[k])

IsProgress100(m) == m.type = "progress" /\ m.pct = 100

\* the job the supervisor started last has failed or was cancelled
LastJobUnsuccessful ==
    /\ proc # 0
    /\ \/ workers[proc].state = "killed"
       \/ workers[proc].state = "exited" /\ ~workers[proc].succeeded
       \/ IsAlive(workers[proc]) /\ (workers[proc].err # "" \/ workers[proc].cancelled)
    /\ ~workers[proc].succeeded
    /\ \A i \in 1..Len(workers[proc].sent) : ~IsProgress100(workers[proc].sent[i])

\* C18: a worker sends progress 100 only with model and tokenizer saved,
\* right after the 'saved' log and the success status, and sends only
\* 'done' after it; a worker that failed, or whose job was cancelled
\* before, sends no progress 100; and while the last job started is a
\* failed or cancelled one the supervisor's progress value is below 100.
C18_Progress100 ==
    /\ \A j \in Jobs :
          IsAlive(workers[j]) =>
             LET w == workers[j] IN
             \A i \in 1..Len(w.sent) :
                IsProgress100(w.sent[i]) =>
                   /\ {"model", "tokenizer"} \subseteq w.saved
                   /\ i >= 3
                   /\ IsLog(w.sent[i - 2], "saved")
                   /\ w.sent[i - 1].type = "status"
                   /\ w.sent[i - 1].text = "success"
                   /\ \A k \in (i + 1)..Len(w.sent) : w.sent[k].type = "done"
                   /\ w.err = ""
                   /\ ~(w.cancelled /\ i > w.sent_at_cancel)
    /\ LastJobUnsuccessful => progress < 100

\* C19: a vision job calls the vision loader first and the generic loader
\* exactly when the vision loader raised, and that failure alone puts no
\* error line on the channel; a text job calls the generic loader only; a
\* worker whose generic loader raised loads and saves nothing, and has sent
\* the error line by the time it reaches its finally clause.
C19_LoaderFallback ==
    \A j \in Jobs :
       (IsAlive(workers[j]) /\ workers[j].loads # <<>>) =>
          LET w == workers[j]
              last == w.loads[Len(w.loads)]
          IN /\ IF w.cfg.MODEL_TYPE = "vision"
                THEN /\ w.loads[1].loader = "vision"
                     /\ (w.loads[1].result = "raised") <=> (Len(w.loads) = 2)
                     /\ Len(w.loads) = 2 => w.loads[2].loader = "generic"
                ELSE /\ Len(w.loads) = 1
                     /\ w.loads[1].loader = "generic"
             /\ last.result = "returned" =>
                   \A i \in 1..Len(w.sent) : ~IsLog(w.sent[i], "load_model")
             /\ last.result = "raised" =>
                   /\ w.model = "none" /\ ~w.tokenizer /\ w.saved = {}
                   /\ w.pc \in {At("h_error"), At("finally")}
                   /\ w.pc = At("finally") =>
                         \E i \in 1..Len(w.sent) : IsLog(w.sent[i], "load_model")

\* C20: the supervisor shows the success status or the success dialog only
\* if the worker of some job has reported success (progress 100).
C20_SuccessOnlyOnSuccess ==
    (status = "done_success" \/ dialog = "showinfo") =>
       \E j \in Jobs :
          \/ workers[j].succeeded
          \/ \E i \in 1..Len(workers[j].sent) : IsProgress100(workers[j].sent[i])

\* C17: a worker that has found the flag set at a reporting call, those of
\* the image-processor block included, makes no library or filesystem call
\* afterwards and sends no message but 'done': it is never again at a call
\* nor past the flag test of a send_* helper.
C17_InterruptAborts ==
    \A j \in Jobs :
       (IsAlive(workers[j]) /\ workers[j].interrupted) =>
          /\ Code[workers[j].pc].op # "call"
          /\ workers[j].ph = "check"

\* the job the supervisor holds in self.proc is running
JobRunning == proc # 0 /\ IsAlive(workers[proc])

\* C21: every message the supervisor handles while a job is running was
\* sent by that job's worker: a poll that runs while the process of
\* self.proc is alive finds in the pipe only messages of that job.
C21_OwnMessagesOnly ==
    [][ (check_pipe /\ JobRunning) =>
           \A i \in 1..Len(pipe) : pipe[i].job = proc ]_vars

\* the start button is enabled and the stop button disabled
StartOnly == start_btn = "normal" /\ stop_btn = "disabled"

\* the stop button is enabled and the start button disabled
StopOnly == start_btn = "disabled" /\ stop_btn = "normal"

\* C22: exactly one of the start and stop buttons is enabled in every state:
\* start alone initially, after stop() has run to its end on a yes, and
\* after a poll that handled a 'done'; stop alone after a start() that
\* passed its URL test.
C22_OneButtonEnabled ==
    /\ StartOnly
    /\ [](StartOnly \/ StopOnly)
    /\ [][ (stop_terminate \/ (check_pipe /\ \E j \in Jobs : DonePending(j)))
              => StartOnly' ]_vars
    /\ [][ (start /\ Strip(url_var) # <<>>) => StopOnly' ]_vars

\* the second job has been started after the first was stopped, then stopped
\* itself, and the first job's 'done' has been handled since
C22_Witness ==
    /\ StartOnly
    /\ njobs = 2
    /\ workers[1].cancelled
    /\ workers[2].cancelled
    /\ ~IsAlive(workers[2])
    /\ status = "done_success"

\* some worker process is alive
WorkerAlive == \E j \in Jobs : IsAlive(workers[j])

\* the settings have been saved and the window destroyed
SavedAndDestroyed ==
    /\ settings_file' = SaveSettings
    /\ window' = "destroyed"

\* C23: a close while a worker is alive either changes nothing (the user
\* declined) or sets the flag, leaves no worker alive, saves the settings
\* and destroys the window (the user confirmed); a close with no worker
\* alive saves the settings and destroys the window.
C23_CloseAsksWhileRunning ==
    [][ on_close =>
          IF WorkerAlive
          THEN \/ UNCHANGED vars
               \/ /\ stop_evt'
                  /\ ~WorkerAlive'
                  /\ SavedAndDestroyed
          ELSE SavedAndDestroyed ]_vars

====
